---- MODULE Spec2Model ----
(***************************************************************************)
(* Math Fellow Attendance: the schedule expander (config.py) and the       *)
(* attendance matcher (matching.py).                                       *)
(*                                                                         *)
(* A Python str is a sequence of one-character strings, so that lower(),   *)
(* strip(), split(), replace() and the substring test `in` are computed    *)
(* character by character.  An Optional[str] is a sequence of length at    *)
(* most one: None is <<>> and a value v is <<v>>.  A date is its number of *)
(* days since a Monday, so that date.weekday() is the number modulo 7.     *)
(***************************************************************************)
EXTENDS Integers, Sequences, FiniteSets, TLC

(***************************************************************************)
(* Bounds of the model.                                                    *)
(***************************************************************************)
\* longest fellow name / display name drawn over NameAlphabet
MaxNameLen == 3
\* longest email / alias drawn over EmailAlphabet
MaxEmailLen == 2
\* longest fellow list of an expected entry
MaxFellows == 2
\* longest sender list of a date
MaxSenders == 2
\* last day of the calendar (day 0 is a Monday)
MaxDay == 6
\* most excluded dates
MaxOff == 2

(***************************************************************************)
(* Python str operations.                                                  *)
(***************************************************************************)
Whitespace == {" ", "\t", "\n"}

UpperCase == <<"A","B","C","D","E","F","G","H","I","J","K","L","M",
               "N","O","P","Q","R","S","T","U","V","W","X","Y","Z">>
LowerCase == <<"a","b","c","d","e","f","g","h","i","j","k","l","m",
               "n","o","p","q","r","s","t","u","v","w","x","y","z">>

\* the lowercase letter of each uppercase letter
LowerOf ==
    [c \in {UpperCase[i] : i \in 1..26} |->
        LowerCase[CHOOSE i \in 1..26 : UpperCase[i] = c]]

LowerChar(c) == IF c \in DOMAIN LowerOf THEN LowerOf[c] ELSE c

\* str.lower()
Lower(s) == [i \in 1..Len(s) |-> LowerChar(s[i])]

\* str.strip(): leading and trailing whitespace removed
Strip(s) ==
    LET keep == {i \in 1..Len(s) : s[i] \notin Whitespace}
    IN  IF keep = {} THEN <<>>
        ELSE SubSeq(s, CHOOSE i \in keep : \A j \in keep : i <= j,
                       CHOOSE i \in keep : \A j \in keep : i >= j)

\* str.split() with no argument: the maximal runs of non-whitespace
RECURSIVE SplitFrom(_, _, _, _)
SplitFrom(s, i, cur, acc) ==
    IF i > Len(s)
    THEN (IF cur = <<>> THEN acc ELSE Append(acc, cur))
    ELSE IF s[i] \in Whitespace
         THEN SplitFrom(s, i + 1, <<>>, IF cur = <<>> THEN acc ELSE Append(acc, cur))
         ELSE SplitFrom(s, i + 1, Append(cur, s[i]), acc)

Split(s) == SplitFrom(s, 1, <<>>, <<>>)

\* " ".join(words)
RECURSIVE Join(_)
Join(words) ==
    IF words = <<>> THEN <<>>
    ELSE IF Len(words) = 1 THEN words[1]
    ELSE words[1] \o <<" ">> \o Join(Tail(words))

\* needle in hay (substring test; the empty string is in every string)
Contains(hay, needle) ==
    \E i \in 0..(Len(hay) - Len(needle)) :
        SubSeq(hay, i + 1, i + Len(needle)) = needle

\* s.replace(",", " ")
ReplaceComma(s) == [i \in 1..Len(s) |-> IF s[i] = "," THEN " " ELSE s[i]]

\* set(words)
WordSet(words) == {words[i] : i \in 1..Len(words)}

(***************************************************************************)
(* matching.py                                                             *)
(***************************************************************************)
\* _normalize_name
NormalizeName(s) == Join(Split(Lower(s)))

\* the words of the fellow name (line 43)
PartsFellow(fellow_lower) == WordSet(Split(fellow_lower))

\* the words of the display name (line 44)
PartsDn(dn_lower) == WordSet(Split(ReplaceComma(dn_lower)))

\* faulty variant: the alias compared without lowercasing it
AliasHitCaseSensitive(alias_raw, email_n, dn_lower) ==
    LET alias == Strip(alias_raw)
    IN  \/ alias = email_n \/ alias = dn_lower
        \/ (email_n # <<>> /\ Contains(email_n, alias))
        \/ (dn_lower # <<>> /\ Contains(dn_lower, alias))

\* faulty variant: an alias that is empty after trimming is skipped
AliasHitSkipBlank(alias_raw, email_n, dn_lower) ==
    LET alias == Lower(Strip(alias_raw))
    IN  /\ alias # <<>>
        /\ \/ alias = email_n \/ alias = dn_lower
           \/ (email_n # <<>> /\ Contains(email_n, alias))
           \/ (dn_lower # <<>> /\ Contains(dn_lower, alias))

\* one iteration of the alias loop (lines 30-36): does this alias return True
AliasHit(alias_raw, email_n, dn_lower) ==
    LET alias == Lower(Strip(alias_raw))
    IN  \/ alias = email_n \/ alias = dn_lower
        \/ (email_n # <<>> /\ Contains(email_n, alias))
        \/ (dn_lower # <<>> /\ Contains(dn_lower, alias))

\* the alias loop (lines 29-36)
AliasLoop(email_n, dn_lower, aliases) ==
    \E k \in 1..Len(aliases) : AliasHit(aliases[k], email_n, dn_lower)

\* faulty variant: the names compared for equality only
SubstringRuleEqual(fellow_lower, dn_lower) == fellow_lower = dn_lower

\* faulty variant: the substring rule dropped
SubstringRuleNone(fellow_lower, dn_lower) == FALSE

\* the substring rule on the normalized names (line 40)
SubstringRule(fellow_lower, dn_lower) ==
    Contains(dn_lower, fellow_lower) \/ Contains(fellow_lower, dn_lower)

\* the name fallback (lines 38-47)
NameFallback(fellow_lower, dn_lower) ==
    IF fellow_lower = <<>> \/ dn_lower = <<>> THEN FALSE
    ELSE IF SubstringRule(fellow_lower, dn_lower) THEN TRUE
    ELSE (PartsFellow(fellow_lower) \cap PartsDn(dn_lower)) = PartsFellow(fellow_lower)

\* sender_matches_fellow
SenderMatchesFellow(em, dn, fellow, aliases) ==
    LET email_n      == Strip(Lower(em))
        fellow_lower == NormalizeName(fellow)
        dn_lower     == NormalizeName(Strip(dn))
    IN  AliasLoop(email_n, dn_lower, aliases) \/ NameFallback(fellow_lower, dn_lower)

(***************************************************************************)
(* Strings the scenarios use.                                              *)
(***************************************************************************)
EmptyStr == <<>>
JerryLiu == <<"J","e","r","r","y"," ","L","i","u">>
LiuJerry == <<"L","i","u",","," ","J","e","r","r","y">>
JerryLiuxxx == <<"J","e","r","r","y"," ","L","i","u","x","x","x">>
AnnLee == <<"A","n","n"," ","L","e","e">>
BoKim == <<"B","o"," ","K","i","m">>
AleeAtX == <<"a","l","e","e","@","x",".","c","o","m">>
UnknownAtX == <<"u","n","k","n","o","w","n","@","x",".","c","o","m">>

Unknown == <<"u","n","k","n","o","w","n">>
None == <<>>
Some(v) == <<v>>

\* fellows_map.get(fellow, []) (line 60)
FellowsGet(fm, fellow) == IF fellow \in DOMAIN fm THEN fm[fellow] ELSE <<>>

\* which_fellow from candidate k on: the first candidate the sender matches, or None
RECURSIVE WhichFellowFrom(_, _, _, _, _)
WhichFellowFrom(em, dn, candidate_fellows, fm, k) ==
    IF k > Len(candidate_fellows) THEN None
    ELSE IF SenderMatchesFellow(em, dn, candidate_fellows[k],
                                FellowsGet(fm, candidate_fellows[k]))
         THEN Some(candidate_fellows[k])
         ELSE WhichFellowFrom(em, dn, candidate_fellows, fm, k + 1)

\* which_fellow
WhichFellow(em, dn, candidate_fellows, fm) ==
    WhichFellowFrom(em, dn, candidate_fellows, fm, 1)

\* senders_by_date.get(d, []) (line 80)
SendersGet(sbd, d) == IF d \in DOMAIN sbd THEN sbd[d] ELSE <<>>

EmptyMap == [k \in {} |-> <<>>]

\* faulty variant: the dict created once and kept from entry to entry and call to call
MatchedKept(prev) == prev

\* matched = {} (line 81): the dict an entry starts from, given the one left behind
MatchedAtEntry(prev) == EmptyMap

\* faulty variant: a later sender overwrites the email of an earlier one
RecordMatchOverwrite(m, fellow, em) ==
    IF fellow # None /\ fellow[1] # <<>>
    THEN (fellow[1] :> em) @@ m
    ELSE m

\* lines 84-85: record the sender's fellow unless it is falsy or already matched
RecordMatch(m, fellow, em) ==
    IF fellow # None /\ fellow[1] # <<>> /\ fellow[1] \notin DOMAIN m
    THEN m @@ (fellow[1] :> em)
    ELSE m

\* faulty variant: a sender is recorded for every fellow of the list it matches
RECURSIVE RecordEveryMatch(_, _, _, _, _)
RecordEveryMatch(m, sender, fellows, fm, k) ==
    IF k > Len(fellows) THEN m
    ELSE RecordEveryMatch(
             IF SenderMatchesFellow(sender[1], sender[2], fellows[k],
                                    FellowsGet(fm, fellows[k]))
             THEN RecordMatch(m, Some(fellows[k]), sender[1])
             ELSE m,
             sender, fellows, fm, k + 1)

RECURSIVE ScanSendersEveryMatch(_, _, _, _)
ScanSendersEveryMatch(senders, fellows, fm, m) ==
    IF senders = <<>> THEN m
    ELSE ScanSendersEveryMatch(Tail(senders), fellows, fm,
                               RecordEveryMatch(m, senders[1], fellows, fm, 1))

\* the sender loop (lines 82-85), in arrival order
RECURSIVE ScanSenders(_, _, _, _)
ScanSenders(senders, fellows, fm, m) ==
    IF senders = <<>> THEN m
    ELSE ScanSenders(Tail(senders), fellows, fm,
                     RecordMatch(m, WhichFellow(senders[1][1], senders[1][2], fellows, fm),
                                 senders[1][1]))

\* matched.get(fellow) (line 90)
MatchedGet(m, fellow) == IF fellow \in DOMAIN m THEN Some(m[fellow]) ELSE None

\* the record loop (lines 86-91): one row per element of the fellow list
EntryRows(entry, m) ==
    [k \in 1..Len(entry[5]) |->
        <<entry[1], entry[2], entry[3], entry[4], entry[5][k],
          IF entry[5][k] \in DOMAIN m THEN "present" ELSE "absent",
          MatchedGet(m, entry[5][k])>>]

(***************************************************************************)
(* config.py                                                               *)
(***************************************************************************)
DAY_NAMES == <<"monday", "tuesday", "wednesday", "thursday", "friday", "saturday", "sunday">>
SESSION_DAYS == {"sunday", "tuesday", "thursday"}

\* DAY_NAMES[d.weekday()] (line 65)
DayName(d) == DAY_NAMES[(d % 7) + 1]

\* faulty variant: the session-day test dropped
InSessionDaysAny(day_name) == TRUE

\* day_name not in SESSION_DAYS (line 66), negated
InSessionDays(day_name) == day_name \in SESSION_DAYS

\* session.get(key, default) (lines 74-75)
SessionGet(session, key, default) ==
    IF key \in DOMAIN session THEN session[key] ELSE default

\* the session loop of one date (lines 72-76); idx counts from 0
DayEntries(sessions, d) ==
    [k \in 1..Len(sessions) |->
        <<d, DayName(d), k - 1, SessionGet(sessions[k], "time", ""),
          SessionGet(sessions[k], "fellows", <<>>)>>]

\* faulty variant: the end date excluded
LoopRunsExclusive(d, end) == d < end

\* while d <= end_date (line 61)
LoopRuns(d, end) == d <= end

\* the date loop (lines 60-77)
RECURSIVE ExpandFrom(_, _, _, _, _)
ExpandFrom(week, d, end, off, acc) ==
    IF ~LoopRuns(d, end) THEN acc
    ELSE IF d \in off THEN ExpandFrom(week, d + 1, end, off, acc)
    ELSE IF ~InSessionDays(DayName(d)) THEN ExpandFrom(week, d + 1, end, off, acc)
    ELSE IF DayName(d) \notin DOMAIN week THEN ExpandFrom(week, d + 1, end, off, acc)
    ELSE ExpandFrom(week, d + 1, end, off, acc \o DayEntries(week[DayName(d)], d))

\* faulty variant: an unknown week type read as a week with no sessions
GetExpectedAttendanceNoRaise(sched, wt, start, end, off) ==
    IF wt \notin DOMAIN sched
    THEN [raised |-> "none", result |-> <<>>]
    ELSE [raised |-> "none", result |-> ExpandFrom(sched[wt], start, end, off, <<>>)]

\* get_expected_attendance: the exception raised ("none" on a return) and the list
GetExpectedAttendance(sched, wt, start, end, off) ==
    IF wt \notin DOMAIN sched
    THEN [raised |-> "ValueError", result |-> <<>>]
    ELSE [raised |-> "none", result |-> ExpandFrom(sched[wt], start, end, off, <<>>)]

\* what fellows.yaml gives for a name: nothing, one string or a list of strings
YamlNone == [kind |-> "none"]
YamlScalar(v) == [kind |-> "scalar", value |-> v]
YamlList(vs) == [kind |-> "list", items |-> vs]

\* load_fellows, the value of one name (lines 37-42)
LoadValue(vals) ==
    IF vals.kind = "none" THEN <<>>
    ELSE IF vals.kind = "list"
         THEN [k \in 1..Len(vals.items) |-> Lower(Strip(vals.items[k]))]
         ELSE <<Lower(Strip(vals.value))>>

\* load_fellows (lines 24-42); file is None when fellows.yaml does not exist,
\* else the mapping it parses to (empty for an empty file)
LoadFellows(file) ==
    IF file = None THEN EmptyMap
    ELSE IF DOMAIN file[1] = {} THEN EmptyMap
    ELSE [name \in DOMAIN file[1] |-> LoadValue(file[1][name])]

\* every string over alphabet of length at most n
StrsUpTo(alphabet, n) == UNION {[1..k -> alphabet] : k \in 0..n}

NameAlphabet == {"a", "B", " ", ","}
EmailAlphabet == {"a", "b", "B", " "}
NameStrs == StrsUpTo(NameAlphabet, MaxNameLen)
EmailStrs == StrsUpTo(EmailAlphabet, MaxEmailLen)

VARIABLES
    pc,              \* where the caller stands
    \* sender_matches_fellow: its arguments and its return value
    email, display_name, fellow_name, fellow_aliases, result,
    \* get_expected_attendance: its arguments, what it raised, what it returned,
    \* and a caller's tiling of the range: the next start, the pieces'
    \* outputs concatenated so far and their number
    schedule, week_type, start_date, end_date, off_dates, raised, expected, cur, pieces, npieces,
    \* mark_present: its arguments, its locals d-loop position (pos), matched and
    \* report, the call number, and the first call's return value
    expected_list, senders_by_date, fellows_map, pos, matched, report, run, first_report,
    \* main: the parsed --start and --end (None when not supplied), date.today(),
    \* whether build_service has returned, the dates of sorted(dates_to_fetch)
    \* still to visit, the senders without a photo, the calls made to the mail
    \* transport so far, and what main printed before returning early
    args_start, args_end, today, service, dates_left, no_image_senders_by_date, fetched,
    printed,
    \* load_fellows: what fellows.yaml parses to (None when the file is missing)
    fellows_file

matchVars == <<email, display_name, fellow_name, fellow_aliases, result>>
expandVars == <<schedule, week_type, start_date, end_date, off_dates, raised, expected,
                cur, pieces, npieces>>
markInputs == <<expected_list, senders_by_date, fellows_map>>
markVars == <<expected_list, senders_by_date, fellows_map, pos, matched, report, run,
              first_report>>
mainVars == <<args_start, args_end, today, service, dates_left, no_image_senders_by_date,
              fetched, printed, fellows_file>>
vars == <<pc, matchVars, expandVars, markVars, mainVars>>

\* a component that a specification does not run
MatchIdle ==
    /\ email = <<>> /\ display_name = <<>> /\ fellow_name = <<>>
    /\ fellow_aliases = <<>> /\ result = "none"
ExpandIdle ==
    /\ schedule = <<>> /\ week_type = "" /\ start_date = 0 /\ end_date = 0
    /\ off_dates = {} /\ raised = "none" /\ expected = <<>> /\ cur = 0 /\ pieces = <<>>
    /\ npieces = 0
MarkIdle ==
    /\ expected_list = <<>> /\ senders_by_date = <<>> /\ fellows_map = <<>>
    /\ pos = 0 /\ matched = EmptyMap /\ report = <<>> /\ run = 0 /\ first_report = <<>>
MainIdle ==
    /\ args_start = <<>> /\ args_end = <<>> /\ today = 0 /\ service = FALSE
    /\ dates_left = <<>> /\ no_image_senders_by_date = <<>> /\ fetched = <<>>
    /\ printed = "" /\ fellows_file = None

(***************************************************************************)
(* SpecMatch: sender_matches_fellow applied to drawn arguments.            *)
(***************************************************************************)
\* names vary over every short string; no alias
MatchInputsNames ==
    /\ fellow_name \in NameStrs
    /\ display_name \in NameStrs
    /\ email \in {EmptyStr, <<"b">>}
    /\ fellow_aliases = <<>>

\* emails and aliases vary over every short string
MatchInputsAliases ==
    /\ email \in EmailStrs
    /\ \E a \in EmailStrs :
          fellow_aliases \in {<<a>>, <<UnknownAtX, a>>, <<a, UnknownAtX>>}
    /\ display_name \in {EmptyStr, <<"B", "o">>}
    /\ fellow_name = BoKim

\* the names of the documented examples
MatchInputsExamples ==
    /\ fellow_name \in {JerryLiu, LiuJerry, AnnLee, BoKim}
    /\ display_name \in {JerryLiu, LiuJerry, JerryLiuxxx, BoKim, EmptyStr}
    /\ email \in {AleeAtX, UnknownAtX}
    /\ fellow_aliases \in {<<>>, <<AleeAtX>>}

MatchInputs ==
    /\ pc = "match"
    /\ result = "none"
    /\ (MatchInputsNames \/ MatchInputsAliases \/ MatchInputsExamples)

Match ==
    /\ pc = "match"
    /\ result' = SenderMatchesFellow(email, display_name, fellow_name, fellow_aliases)
    /\ pc' = "match_done"
    /\ UNCHANGED <<email, display_name, fellow_name, fellow_aliases>>
    /\ UNCHANGED <<expandVars, markVars, mainVars>>

InitMatch == MatchInputs /\ ExpandIdle /\ MarkIdle /\ MainIdle

SpecMatch == InitMatch /\ [][Match]_vars

(***************************************************************************)
(* SpecExpand: get_expected_attendance over a range, then over pieces that *)
(* tile the range.                                                         *)
(***************************************************************************)
Days == 0..MaxDay

Session1 == [time |-> "3pm", fellows |-> <<AnnLee, BoKim>>]
Session2 == [time |-> "4pm", fellows |-> <<BoKim>>]
\* a session with no time label and one with no fellows
Session3 == [fellows |-> <<AnnLee>>]
Session4 == [time |-> "5pm"]

ScheduleBoth ==
    [blue |-> [tuesday |-> <<Session1, Session2>>, thursday |-> <<Session3>>,
               monday |-> <<Session2>>],
     gold |-> [sunday |-> <<Session4, Session1>>, thursday |-> <<>>]]
ScheduleBlueOnly ==
    [blue |-> [tuesday |-> <<Session1>>, sunday |-> <<Session2>>,
               saturday |-> <<Session1>>]]
ScheduleOneTuesday ==
    [blue |-> [tuesday |-> <<Session1>>], gold |-> [tuesday |-> <<>>]]
Schedules == {ScheduleBoth, ScheduleBlueOnly, ScheduleOneTuesday}

WeekTypes == {"blue", "gold", "green"}

OffSets == {o \in SUBSET Days : Cardinality(o) <= MaxOff} \cup {Days}

ExpandInputs ==
    /\ pc = "expand"
    /\ schedule \in Schedules
    /\ week_type \in WeekTypes
    /\ start_date \in Days
    /\ end_date \in Days
    /\ off_dates \in OffSets
    /\ raised = "none" /\ expected = <<>> /\ cur = 0 /\ pieces = <<>> /\ npieces = 0

\* the call over the whole range
ExpandCall ==
    /\ pc = "expand"
    /\ LET r == GetExpectedAttendance(schedule, week_type, start_date, end_date, off_dates)
       IN  /\ raised' = r.raised
           /\ expected' = r.result
           /\ pc' = IF r.raised = "none" THEN "tile" ELSE "raised"
    /\ cur' = start_date
    /\ UNCHANGED <<schedule, week_type, start_date, end_date, off_dates, pieces, npieces>>
    /\ UNCHANGED <<matchVars, markVars, mainVars>>

\* the call over the next piece [cur, m] of the range
ExpandPiece ==
    /\ pc = "tile"
    /\ cur <= end_date
    /\ \E m \in cur..end_date :
          /\ pieces' = pieces \o
                GetExpectedAttendance(schedule, week_type, cur, m, off_dates).result
          /\ cur' = m + 1
    /\ npieces' = npieces + 1
    /\ UNCHANGED <<pc, schedule, week_type, start_date, end_date, off_dates, raised, expected>>
    /\ UNCHANGED <<matchVars, markVars, mainVars>>

ExpandNext == ExpandCall \/ ExpandPiece

InitExpand == ExpandInputs /\ MatchIdle /\ MarkIdle /\ MainIdle

SpecExpand == InitExpand /\ [][ExpandNext]_vars

(***************************************************************************)
(* SpecReconcile: mark_present called twice on the same arguments.         *)
(***************************************************************************)
SeqsUpTo(S, n) == UNION {[1..k -> S] : k \in 0..n}

FellowNames == {AnnLee, BoKim, EmptyStr}
FellowLists == SeqsUpTo(FellowNames, MaxFellows)

\* observed senders: (email, display name)
SenderAlee == <<AleeAtX, EmptyStr>>
SenderBo == <<UnknownAtX, BoKim>>
SenderBoth == <<AleeAtX, BoKim>>
Senders == {SenderAlee, SenderBo, SenderBoth}
SenderLists == SeqsUpTo(Senders, MaxSenders)

RosterScenario == (AnnLee :> <<AleeAtX>>) @@ (BoKim :> <<>>)
\* a fellows.yaml that loads to RosterScenario
FellowsYamlScenario == (AnnLee :> YamlScalar(AleeAtX)) @@ (BoKim :> YamlNone)
RosterBlankName == (EmptyStr :> <<Unknown>>)
Rosters == {RosterScenario, RosterBlankName}

Tuesday == 1
Thursday == 3

Entry(d, idx, fellows) == <<d, DayName(d), idx, "3pm", fellows>>

ExpectedLists ==
    UNION {{<<Entry(Tuesday, 0, fl)>>,
            <<Entry(Tuesday, 0, fl), Entry(Tuesday, 1, fl)>>,
            <<Entry(Tuesday, 0, fl), Entry(Thursday, 0, fl)>>} : fl \in FellowLists}

SendersByDate ==
    {(Tuesday :> tu) : tu \in SenderLists}
    \cup {(Tuesday :> tu) @@ (Thursday :> th) :
            tu \in SenderLists, th \in {<<>>, <<SenderBo>>}}

MarkInputs ==
    /\ pc = "mark"
    /\ expected_list \in ExpectedLists
    /\ senders_by_date \in SendersByDate
    /\ fellows_map \in Rosters
    /\ pos = 0 /\ matched = EmptyMap /\ report = <<>> /\ run = 1 /\ first_report = <<>>

\* entry to mark_present: report = [] (line 78)
MarkPresentCall ==
    /\ pc = "mark"
    /\ report' = <<>>
    /\ pos' = 1
    /\ pc' = "loop"
    /\ UNCHANGED <<markInputs, matched, run, first_report>>
    /\ UNCHANGED <<matchVars, expandVars, mainVars>>

\* one iteration of the loop over expected_list (lines 79-91)
MarkEntry ==
    /\ pc = "loop"
    /\ pos <= Len(expected_list)
    /\ LET entry   == expected_list[pos]
           senders == SendersGet(senders_by_date, entry[1])
       IN  /\ matched' = ScanSenders(senders, entry[5], fellows_map, MatchedAtEntry(matched))
           /\ report' = report \o EntryRows(entry, matched')
    /\ pos' = pos + 1
    /\ UNCHANGED <<pc, markInputs, run, first_report>>
    /\ UNCHANGED <<matchVars, expandVars, mainVars>>

\* return report (line 92); the caller keeps the first result and calls again
MarkPresentReturn ==
    /\ pc = "loop"
    /\ pos > Len(expected_list)
    /\ IF run = 1
       THEN /\ first_report' = report
            /\ run' = 2
            /\ pc' = "mark"
       ELSE /\ pc' = "done"
            /\ UNCHANGED <<first_report, run>>
    /\ UNCHANGED <<markInputs, pos, matched, report>>
    /\ UNCHANGED <<matchVars, expandVars, mainVars>>

MarkNext == MarkPresentCall \/ MarkEntry \/ MarkPresentReturn

InitReconcile == MarkInputs /\ MatchIdle /\ ExpandIdle /\ MainIdle

SpecReconcile == InitReconcile /\ [][MarkNext]_vars

(***************************************************************************)
(* SpecMatchReconcile: either sender_matches_fellow on drawn arguments or  *)
(* mark_present on drawn arguments.                                        *)
(***************************************************************************)
InitMatchReconcile == InitMatch \/ InitReconcile

MatchReconcileNext == Match \/ MarkNext

SpecMatchReconcile == InitMatchReconcile /\ [][MatchReconcileNext]_vars

(***************************************************************************)
(* SpecMain: one run of main (attendance.py) from its parsed arguments to  *)
(* the return of mark_present.  The mail transport answers each call with  *)
(* a list of senders or raises.                                            *)
(***************************************************************************)
\* date.weekday(): 0 is Monday, 6 is Sunday
Weekday(d) == d % 7

\* _week_sunday_to_saturday (lines 29-37)
WeekSundayToSaturday(ref) ==
    LET days_back == IF Weekday(ref) = 6 THEN 0 ELSE (Weekday(ref) + 1) % 7
        start     == ref - days_back
    IN  <<start, start + 6>>

\* lines 92-95: start and end as parsed, or the week of ref when either is None
RangeDefaulted(a_start, a_end, ref) ==
    IF a_start = None \/ a_end = None
    THEN WeekSundayToSaturday(ref)
    ELSE <<a_start[1], a_end[1]>>

\* lines 96-97: swapped when reversed
RangeOrdered(r) == IF r[1] > r[2] THEN <<r[2], r[1]>> ELSE r

DateRange(a_start, a_end, ref) == RangeOrdered(RangeDefaulted(a_start, a_end, ref))

\* sorted(S) for a set of dates
RECURSIVE Sorted(_)
Sorted(S) ==
    IF S = {} THEN <<>>
    ELSE LET least == CHOOSE d \in S : \A e \in S : d <= e
         IN  <<least>> \o Sorted(S \ {least})

\* faulty variant: one visit per expected entry, in the order of the entries
DatesOfEntries(exp) == [i \in 1..Len(exp) |-> exp[i][1]]

\* sorted(dates_to_fetch) with dates_to_fetch = {t[0] for t in expected}
\* (lines 109, 112)
DatesToFetch(exp) == Sorted({exp[i][1] : i \in 1..Len(exp)})

\* mark_present from entry p on, given the dict the previous entry left behind
RECURSIVE MarkPresentFrom(_, _, _, _, _)
MarkPresentFrom(el, sbd, fm, p, prev) ==
    IF p > Len(el) THEN <<>>
    ELSE LET m == ScanSenders(SendersGet(sbd, el[p][1]), el[p][5], fm,
                              MatchedAtEntry(prev))
         IN  EntryRows(el[p], m) \o MarkPresentFrom(el, sbd, fm, p + 1, m)

\* mark_present (lines 66-92) as one call
MarkPresent(el, sbd, fm) == MarkPresentFrom(el, sbd, fm, 1, EmptyMap)

NoSessionsMessage == "No sessions in the given date range (or all days are off)."

\* what --start and --end parse to
ArgDays == {0, 1, 3, 6}
ArgDates == {None} \cup {Some(d) : d \in ArgDays}
\* date.today(): a Sunday, a Wednesday, a Saturday and the Sunday after it
Todays == {6, 9, 12, 13}
MainOffSets == {{}, {1}, {8}}
\* what the transport returns for a date
Replies == {<<>>, <<SenderAlee>>}

MainInputs ==
    /\ pc = "main"
    /\ args_start \in ArgDates
    /\ args_end \in ArgDates
    /\ today \in Todays
    /\ off_dates \in MainOffSets
    /\ week_type \in {"blue", "gold"}
    /\ schedule \in Schedules
    /\ fellows_file = Some(FellowsYamlScenario)
    /\ fellows_map = LoadFellows(fellows_file)
    /\ start_date = 0 /\ end_date = 0 /\ raised = "none" /\ expected = <<>>
    /\ cur = 0 /\ pieces = <<>> /\ npieces = 0
    /\ expected_list = <<>> /\ senders_by_date = <<>> /\ pos = 0 /\ matched = EmptyMap
    /\ report = <<>> /\ run = 0 /\ first_report = <<>>
    /\ service = FALSE /\ dates_left = <<>> /\ no_image_senders_by_date = <<>>
    /\ fetched = <<>> /\ printed = ""

\* lines 92-97: the date range
MainRange ==
    /\ pc = "main"
    /\ LET r == DateRange(args_start, args_end, today)
       IN  /\ start_date' = r[1]
           /\ end_date' = r[2]
    /\ pc' = "main_range"
    /\ UNCHANGED <<schedule, week_type, off_dates, raised, expected, cur, pieces, npieces>>
    /\ UNCHANGED <<matchVars, markVars, mainVars>>

\* lines 102-106: the expected entries; the early return when there are none
MainExpected ==
    /\ pc = "main_range"
    /\ LET r == GetExpectedAttendance(schedule, week_type, start_date, end_date, off_dates)
       IN  /\ raised' = r.raised
           /\ expected' = r.result
           /\ pc' = IF r.raised # "none" THEN "main_raised"
                    ELSE IF r.result = <<>> THEN "main_returned"
                    ELSE "main_service"
           /\ printed' = IF r.raised = "none" /\ r.result = <<>>
                         THEN NoSessionsMessage ELSE printed
    /\ UNCHANGED <<schedule, week_type, start_date, end_date, off_dates, cur, pieces, npieces>>
    /\ UNCHANGED <<args_start, args_end, today, service, dates_left,
                   no_image_senders_by_date, fetched, fellows_file>>
    /\ UNCHANGED <<matchVars, markVars>>

\* lines 108-112: build_service returns, the dicts are created empty and the
\* loop over sorted(dates_to_fetch) starts
MainBuildService ==
    /\ pc = "main_service"
    /\ service' = TRUE
    /\ dates_left' = DatesToFetch(expected)
    /\ senders_by_date' = EmptyMap
    /\ no_image_senders_by_date' = EmptyMap
    /\ pc' = "main_fetch"
    /\ UNCHANGED <<args_start, args_end, today, fetched, printed, fellows_file>>
    /\ UNCHANGED <<expected_list, fellows_map, pos, matched, report, run, first_report>>
    /\ UNCHANGED <<matchVars, expandVars>>

\* line 108: build_service raises (no credentials file)
MainBuildServiceRaises ==
    /\ pc = "main_service"
    /\ raised' = "FileNotFoundError"
    /\ pc' = "main_raised"
    /\ UNCHANGED <<schedule, week_type, start_date, end_date, off_dates, expected, cur,
                   pieces, npieces>>
    /\ UNCHANGED <<matchVars, markVars, mainVars>>

\* line 113: get_senders_for_date for the next date
MainFetchWithPhoto ==
    /\ pc = "main_fetch"
    /\ dates_left # <<>>
    /\ \E reply \in Replies :
          senders_by_date' = (dates_left[1] :> reply) @@ senders_by_date
    /\ fetched' = Append(fetched, <<"with_photo", dates_left[1]>>)
    /\ pc' = "main_fetch_no_image"
    /\ UNCHANGED <<args_start, args_end, today, service, dates_left,
                   no_image_senders_by_date, printed, fellows_file>>
    /\ UNCHANGED <<expected_list, fellows_map, pos, matched, report, run, first_report>>
    /\ UNCHANGED <<matchVars, expandVars>>

\* line 114: get_senders_without_image_for_date for the same date
MainFetchWithoutPhoto ==
    /\ pc = "main_fetch_no_image"
    /\ \E reply \in Replies :
          no_image_senders_by_date' = (dates_left[1] :> reply) @@ no_image_senders_by_date
    /\ fetched' = Append(fetched, <<"without_photo", dates_left[1]>>)
    /\ dates_left' = Tail(dates_left)
    /\ pc' = "main_fetch"
    /\ UNCHANGED <<args_start, args_end, today, service, printed, fellows_file>>
    /\ UNCHANGED <<markVars, matchVars, expandVars>>

\* lines 113-114: the transport raises (HttpError, RuntimeError) instead of returning
MainFetchRaises ==
    /\ \/ pc = "main_fetch" /\ dates_left # <<>>
       \/ pc = "main_fetch_no_image"
    /\ fetched' = Append(fetched, <<IF pc = "main_fetch" THEN "with_photo"
                                    ELSE "without_photo", dates_left[1]>>)
    /\ raised' = "HttpError"
    /\ pc' = "main_raised"
    /\ UNCHANGED <<schedule, week_type, start_date, end_date, off_dates, expected, cur,
                   pieces, npieces>>
    /\ UNCHANGED <<args_start, args_end, today, service, dates_left,
                   no_image_senders_by_date, printed, fellows_file>>
    /\ UNCHANGED <<matchVars, markVars>>

\* line 116: mark_present on what was fetched
MainMarkPresent ==
    /\ pc = "main_fetch"
    /\ dates_left = <<>>
    /\ expected_list' = expected
    /\ report' = MarkPresent(expected, senders_by_date, fellows_map)
    /\ pc' = "main_marked"
    /\ UNCHANGED <<senders_by_date, fellows_map, pos, matched, run, first_report>>
    /\ UNCHANGED <<matchVars, expandVars, mainVars>>

MainNext ==
    \/ MainRange
    \/ MainExpected
    \/ MainBuildService
    \/ MainBuildServiceRaises
    \/ MainFetchWithPhoto
    \/ MainFetchWithoutPhoto
    \/ MainFetchRaises
    \/ MainMarkPresent

InitMain == MainInputs /\ MatchIdle

SpecMain == InitMain /\ [][MainNext]_vars

(***************************************************************************)
(* SpecLoadMatch: load_fellows on a drawn fellows.yaml, then                *)
(* sender_matches_fellow with the aliases loaded for the fellow; or         *)
(* sender_matches_fellow on drawn arguments.                                *)
(***************************************************************************)
\* the values fellows.yaml may give for one name
YamlValues ==
    {YamlNone}
    \cup {YamlScalar(a) : a \in EmailStrs}
    \cup UNION {{YamlList(<<a>>), YamlList(<<UnknownAtX, a>>), YamlList(<<a, UnknownAtX>>)} :
                  a \in EmailStrs}

\* fellows.yaml missing, empty, or with one entry for Bo Kim
FellowsFiles ==
    {None, Some(EmptyMap)} \cup {Some(BoKim :> v) : v \in YamlValues}

LoadInputs ==
    /\ pc = "load"
    /\ fellows_file \in FellowsFiles
    /\ fellow_name \in {BoKim, AnnLee}
    /\ email \in {EmptyStr, <<" ">>, <<"b">>, <<"a", "B">>, UnknownAtX}
    /\ display_name \in {EmptyStr, <<" ">>, <<"B", "o">>, JerryLiu}
    /\ fellow_aliases = <<>> /\ result = "none"
    /\ args_start = <<>> /\ args_end = <<>> /\ today = 0 /\ service = FALSE
    /\ dates_left = <<>> /\ no_image_senders_by_date = <<>> /\ fetched = <<>>
    /\ printed = ""

\* load_fellows (config.py lines 24-42), then fellows_map.get(fellow, [])
\* (matching.py line 60) for the fellow to match
LoadFellowsCall ==
    /\ pc = "load"
    /\ fellows_map' = LoadFellows(fellows_file)
    /\ fellow_aliases' = FellowsGet(fellows_map', fellow_name)
    /\ pc' = "match"
    /\ UNCHANGED <<email, display_name, fellow_name, result>>
    /\ UNCHANGED <<expected_list, senders_by_date, pos, matched, report, run, first_report>>
    /\ UNCHANGED <<expandVars, mainVars>>

InitLoadMatch == (LoadInputs /\ ExpandIdle /\ MarkIdle) \/ InitMatch

LoadMatchNext == LoadFellowsCall \/ Match

SpecLoadMatch == InitLoadMatch /\ [][LoadMatchNext]_vars

(***************************************************************************)
(* Claims about get_expected_attendance (SpecExpand).                      *)
(***************************************************************************)
\* C4: when pieces [s,m1], [m1+1,m2], ... tile [start_date, end_date], the
\* outputs of get_expected_attendance over the pieces, concatenated in order,
\* equal its output over the whole range, entry for entry.
C4_TilingConcatenates ==
    (pc = "tile" /\ cur = end_date + 1) => pieces = expected

\* a range cut in at least two pieces whose output has several entries
C4_Witness ==
    /\ pc = "tile" /\ cur = end_date + 1
    /\ npieces >= 2
    /\ Len(expected) >= 3

\* C6: a week type that is neither blue nor gold makes get_expected_attendance
\* raise (ValueError, the code's configuration error) and return nothing.
C6_UnknownWeekTypeRaises ==
    (pc # "expand" /\ week_type \notin {"blue", "gold"})
        => (pc = "raised" /\ raised = "ValueError" /\ expected = <<>>)

\* the call with week type "green" over a range holding a session day
C6_Witness ==
    /\ pc = "raised" /\ week_type = "green"
    /\ start_date <= Tuesday /\ Tuesday <= end_date /\ Tuesday \notin off_dates

\* the dates the claim says are expanded
C7_Qualifies(d) ==
    /\ start_date <= d /\ d <= end_date
    /\ d \notin off_dates
    /\ DayName(d) \in {"sunday", "tuesday", "thursday"}
    /\ DayName(d) \in DOMAIN schedule[week_type]

\* C7: the returned list holds, in ascending date order and configured session
\* order, exactly one entry per session configured for each date of the range
\* that is not excluded, falls on a Sunday, Tuesday or Thursday and whose
\* weekday the week type configures; nothing else; so nothing when every date
\* of the range is excluded.
C7_ExactOutput ==
    pc = "tile" =>
        LET week == schedule[week_type]
        IN  /\ \A k \in 1..Len(expected) :
                 LET r == expected[k]
                 IN  /\ r[1] \in Days /\ C7_Qualifies(r[1])
                     /\ r[2] = DayName(r[1])
                     /\ r[3] \in 0..(Len(week[r[2]]) - 1)
                     /\ LET session == week[r[2]][r[3] + 1]
                        IN  /\ r[4] = (IF "time" \in DOMAIN session
                                       THEN session.time ELSE "")
                            /\ r[5] = (IF "fellows" \in DOMAIN session
                                       THEN session.fellows ELSE <<>>)
            /\ \A d \in Days : C7_Qualifies(d) =>
                 \A i \in 0..(Len(week[DayName(d)]) - 1) :
                    Cardinality({k \in 1..Len(expected) :
                                    expected[k][1] = d /\ expected[k][3] = i}) = 1
            /\ \A k \in 1..Len(expected) : \A j \in 1..Len(expected) :
                 k < j => \/ expected[k][1] < expected[j][1]
                          \/ (expected[k][1] = expected[j][1]
                              /\ expected[k][3] < expected[j][3])
            /\ ((\A d \in Days : (start_date <= d /\ d <= end_date) => d \in off_dates)
                    => expected = <<>>)

\* a range with an excluded session day, a configured Monday and several entries
C7_Witness ==
    /\ pc = "tile"
    /\ Len(expected) >= 2
    /\ "monday" \in DOMAIN schedule[week_type]
    /\ start_date = 0
    /\ \E d \in start_date..end_date : d \in off_dates /\ DayName(d) = "thursday"

(***************************************************************************)
(* Claims about sender_matches_fellow (SpecMatch, SpecMatchReconcile).     *)
(***************************************************************************)
\* the scenario's single Tuesday session and its two possible reports
ScenarioExpected == <<Entry(Tuesday, 0, <<AnnLee, BoKim>>)>>
ScenarioRow(fellow, status, matched_email) ==
    <<Tuesday, "tuesday", 0, "3pm", fellow, status, matched_email>>

\* C3 as stated: for fellow "Jerry Liu" with no aliases, display name
\* "Liu, Jerry" matches and display name "Jerry Liuxxx" does not.
C3_Original ==
    (pc = "match_done" /\ fellow_name = JerryLiu /\ fellow_aliases = <<>>)
        => /\ (display_name = LiuJerry => result = TRUE)
           /\ (display_name = JerryLiuxxx => result = FALSE)

\* C3 amended: for fellow "Jerry Liu" with no aliases, display name
\* "Liu, Jerry" matches and display name "Jerry Liuxxx" matches too (the
\* normalized fellow name is a substring of it).
C3_Amended ==
    (pc = "match_done" /\ fellow_name = JerryLiu /\ fellow_aliases = <<>>)
        => /\ (display_name = LiuJerry => result = TRUE)
           /\ (display_name = JerryLiuxxx => result = TRUE)

\* the call with display name "Jerry Liuxxx" has returned True
C3_Witness ==
    /\ pc = "match_done" /\ fellow_name = JerryLiu /\ fellow_aliases = <<>>
    /\ display_name = JerryLiuxxx /\ email = UnknownAtX
    /\ result = TRUE

\* C5: an alias equal, ignoring case, to the sender's email makes
\* sender_matches_fellow return True whatever the display name; and in the
\* one-Tuesday scenario with sender (alee@x.com, "") Ann Lee is present with
\* matched email alee@x.com and Bo Kim is absent with no matched email.
C5_AliasEqualsEmail ==
    /\ (pc = "match_done"
        /\ \E k \in 1..Len(fellow_aliases) : Lower(fellow_aliases[k]) = Lower(email))
            => result = TRUE
    /\ (pc = "done" /\ expected_list = ScenarioExpected /\ fellows_map = RosterScenario
        /\ SendersGet(senders_by_date, Tuesday) = <<SenderAlee>>)
            => report = <<ScenarioRow(AnnLee, "present", Some(AleeAtX)),
                          ScenarioRow(BoKim, "absent", None)>>

\* the scenario has run: the alias alee@x.com met the sender with no display name
C5_Witness ==
    /\ pc = "done" /\ expected_list = ScenarioExpected /\ fellows_map = RosterScenario
    /\ SendersGet(senders_by_date, Tuesday) = <<SenderAlee>>
    /\ Len(report) = 2 /\ report[1][6] = "present"

\* the words of a name split on whitespace and commas after lowercasing
C8_Words(s) == WordSet(Split(ReplaceComma(Lower(s))))

\* C8: when no alias rule matches, sender_matches_fellow returns True whenever
\* every word of the fellow name, split on whitespace and commas, is a word of
\* the display name split the same way (a fellow name with at least one word).
C8_WordSetBothSplit ==
    (pc = "match_done"
     /\ ~AliasLoop(Strip(Lower(email)), NormalizeName(display_name), fellow_aliases)
     /\ C8_Words(fellow_name) # {}
     /\ C8_Words(fellow_name) \subseteq C8_Words(display_name))
        => result = TRUE

\* C9 as stated: with an empty alias list, a display name that normalizes to
\* the normalized fellow name is a match, whatever the email.
C9_Original ==
    (pc = "match_done" /\ fellow_aliases = <<>>
     /\ NormalizeName(display_name) = NormalizeName(fellow_name))
        => result = TRUE

\* C9 amended: with an empty alias list (or a fellow absent from the roster), a
\* display name that normalizes to the normalized fellow name is a match,
\* whatever the email, provided that normalized name is not empty; two names
\* that both normalize to the empty string do not match.  In the scenario with
\* sender (unknown@x.com, "Bo Kim") Bo Kim is present and Ann Lee is absent.
C9_Amended ==
    /\ (pc = "match_done" /\ fellow_aliases = <<>>
        /\ NormalizeName(display_name) = NormalizeName(fellow_name))
            => (result = (NormalizeName(fellow_name) # <<>>))
    /\ (pc = "done" /\ Len(expected_list[1][5]) >= 1)
            => LET F    == expected_list[1][5][1]
                   pool == SendersGet(senders_by_date, expected_list[1][1])
               IN  (/\ FellowsGet(fellows_map, F) = <<>>
                    /\ NormalizeName(F) # <<>>
                    /\ \E i \in 1..Len(pool) : NormalizeName(pool[i][2]) = NormalizeName(F))
                        => report[1][6] = "present"
    /\ (pc = "done" /\ expected_list = ScenarioExpected /\ fellows_map = RosterScenario
        /\ SendersGet(senders_by_date, Tuesday) = <<SenderBo>>)
            => report = <<ScenarioRow(AnnLee, "absent", None),
                          ScenarioRow(BoKim, "present", Some(UnknownAtX))>>

\* a fellow absent from the roster has been matched by display name alone
C9_Witness ==
    /\ pc = "done" /\ fellows_map = RosterBlankName
    /\ expected_list[1][5] = <<BoKim>>
    /\ SendersGet(senders_by_date, Tuesday) = <<SenderBo>>
    /\ report[1][6] = "present" /\ report[1][7] = Some(UnknownAtX)

(***************************************************************************)
(* Claims about mark_present (SpecReconcile).                              *)
(***************************************************************************)
\* the number of rows the entries before entry p contribute
RECURSIVE RowsBefore(_)
RowsBefore(p) == IF p <= 1 THEN 0 ELSE RowsBefore(p - 1) + Len(expected_list[p - 1][5])

\* the row of the k-th fellow of entry p
RowOf(p, k) == report[RowsBefore(p) + k]

\* the senders of entry p's date that identify fellow F under the matching rule
C1_Identifying(p, F) ==
    LET pool == SendersGet(senders_by_date, expected_list[p][1])
    IN  {i \in 1..Len(pool) :
            SenderMatchesFellow(pool[i][1], pool[i][2], F, FellowsGet(fellows_map, F))}

\* the senders of entry p's date credited to fellow F: they identify F and no
\* fellow listed before F's first place in the entry's list
C1_Credited(p, F) ==
    LET fellows == expected_list[p][5]
        first   == CHOOSE k \in 1..Len(fellows) :
                      fellows[k] = F /\ \A j \in 1..(k - 1) : fellows[j] # F
    IN  {i \in C1_Identifying(p, F) :
            \A j \in 1..(first - 1) : i \notin C1_Identifying(p, fellows[j])}

\* what the row of fellow F must be, given the set of senders that count for F
C1_RowMatches(row, pool, counting) ==
    IF counting = {}
    THEN row[6] = "absent" /\ row[7] = None
    ELSE /\ row[6] = "present"
         /\ row[7] = Some(pool[CHOOSE i \in counting : \A j \in counting : i <= j][1])

\* C1 as stated: a fellow is present exactly when some sender of the date
\* identifies the fellow, with the email of the first such sender; otherwise
\* absent with no matched email (stated here for the fellows of the scenario
\* roster, whose names are not empty).
C1_Original ==
    (pc = "done" /\ fellows_map = RosterScenario) =>
        \A p \in 1..Len(expected_list) : \A k \in 1..Len(expected_list[p][5]) :
            expected_list[p][5][k] # <<>> =>
                C1_RowMatches(RowOf(p, k),
                              SendersGet(senders_by_date, expected_list[p][1]),
                              C1_Identifying(p, expected_list[p][5][k]))

\* C1 amended: a fellow F is present exactly when F's name is not empty and
\* some sender of the date is credited to F, that is identifies F and no fellow
\* listed before F in the entry's fellow list; the matched email is the email
\* of the first such sender; otherwise F is absent with no matched email.
C1_Amended ==
    pc = "done" =>
        \A p \in 1..Len(expected_list) : \A k \in 1..Len(expected_list[p][5]) :
            LET F == expected_list[p][5][k]
            IN  C1_RowMatches(RowOf(p, k),
                              SendersGet(senders_by_date, expected_list[p][1]),
                              IF F = <<>> THEN {} ELSE C1_Credited(p, F))

\* two senders identify Bo Kim, who is listed first, and the first one's email
\* is the matched one; Ann Lee, identified by the second sender too, is absent
C1_Witness ==
    /\ pc = "done" /\ fellows_map = RosterScenario
    /\ expected_list[1][5] = <<BoKim, AnnLee>>
    /\ SendersGet(senders_by_date, Tuesday) = <<SenderBo, SenderBoth>>
    /\ report[1][6] = "present" /\ report[1][7] = Some(UnknownAtX)
    /\ report[2][6] = "absent"

\* C2: the report holds exactly one record for each (date, session index,
\* fellow) triple of the expected list, and no other record (stated here for
\* the fellows whose names are not empty).
C2_OneRecordPerTriple ==
    pc = "done" =>
        /\ \A p \in 1..Len(expected_list) : \A k \in 1..Len(expected_list[p][5]) :
              expected_list[p][5][k] # <<>> =>
              Cardinality({r \in 1..Len(report) :
                              /\ report[r][1] = expected_list[p][1]
                              /\ report[r][3] = expected_list[p][3]
                              /\ report[r][5] = expected_list[p][5][k]}) = 1
        /\ \A r \in 1..Len(report) :
              \E p \in 1..Len(expected_list) : \E k \in 1..Len(expected_list[p][5]) :
                  /\ report[r][1] = expected_list[p][1]
                  /\ report[r][3] = expected_list[p][3]
                  /\ report[r][5] = expected_list[p][5][k]

\* C10: the second call of mark_present on the same arguments returns what the
\* first call returned, and no step of a call changes the expected list, the
\* senders mapping or the roster.
C10_Idempotent ==
    /\ [](pc = "done" => report = first_report)
    /\ [][markInputs' = markInputs]_vars

\* both calls have returned; Bo Kim was absent on Tuesday and present on Thursday
C10_Witness ==
    /\ pc = "done" /\ run = 2
    /\ Len(expected_list) = 2 /\ expected_list[1][5] = <<BoKim>>
    /\ Len(first_report) = 2
    /\ first_report[1][6] = "absent" /\ first_report[2][6] = "present"

(***************************************************************************)
(* Claims about main's date range (SpecMain).                              *)
(***************************************************************************)
\* the Sunday on or before ref and the Saturday on or after it
SundayOnOrBefore(ref) == CHOOSE d \in (ref - 6)..ref : Weekday(d) = 6
SaturdayOnOrAfter(ref) == CHOOSE d \in ref..(ref + 6) : Weekday(d) = 5

\* the range when each bound that was not supplied, and only that bound, takes
\* the current week's default
C11_PerBoundRange ==
    LET s == IF args_start = None THEN SundayOnOrBefore(today) ELSE args_start[1]
        e == IF args_end = None THEN SaturdayOnOrAfter(today) ELSE args_end[1]
    IN  IF s > e THEN <<e, s>> ELSE <<s, e>>

\* C11: the date range main uses runs from the supplied --start to the supplied
\* --end (swapped if reversed), and the current week's Sunday or Saturday stands
\* in only for a bound that was not supplied; a date supplied alone is still used.
C11_SuppliedBoundKept ==
    pc = "main_range" => <<start_date, end_date>> = C11_PerBoundRange

(***************************************************************************)
(* Claims about the crediting of senders (SpecReconcile).                  *)
(***************************************************************************)
\* the places in entry p's fellow list of the fellows that sender i of the
\* entry's date matches
C12_MatchedPlaces(p, i) ==
    LET pool    == SendersGet(senders_by_date, expected_list[p][1])
        fellows == expected_list[p][5]
    IN  {k \in 1..Len(fellows) :
            SenderMatchesFellow(pool[i][1], pool[i][2], fellows[k],
                                FellowsGet(fellows_map, fellows[k]))}

\* the fellows sender i is credited to: the one at the first matched place,
\* unless its name is empty
C12_CreditedTo(p, i) ==
    LET places == C12_MatchedPlaces(p, i)
        fellows == expected_list[p][5]
    IN  {fellows[k] : k \in {k \in places : \A j \in places : k <= j}} \ {<<>>}

\* the fellows of entry p that the report marks present
C12_Present(p) ==
    {expected_list[p][5][k] : k \in {k \in 1..Len(expected_list[p][5]) :
                                        RowOf(p, k)[6] = "present"}}

\* C12: within one expected session every sender is credited to at most one
\* fellow, the first fellow of the session's list that the sender matches: the
\* fellows marked present are exactly the fellows so credited, each with the
\* email of a sender credited to it, so a sender that matches two fellows of
\* the session never makes both present and there are no more fellows present
\* than senders.
C12_OneFellowPerSender ==
    pc = "done" =>
        \A p \in 1..Len(expected_list) :
            LET pool == SendersGet(senders_by_date, expected_list[p][1])
            IN  /\ \A i \in 1..Len(pool) : Cardinality(C12_CreditedTo(p, i)) <= 1
                /\ C12_Present(p) = UNION {C12_CreditedTo(p, i) : i \in 1..Len(pool)}
                /\ Cardinality(C12_Present(p)) <= Len(pool)
                /\ \A k \in 1..Len(expected_list[p][5]) :
                      RowOf(p, k)[6] = "present" =>
                          \E i \in 1..Len(pool) :
                              /\ expected_list[p][5][k] \in C12_CreditedTo(p, i)
                              /\ RowOf(p, k)[7] = Some(pool[i][1])

\* one sender matches Ann Lee by alias and Bo Kim by display name; Ann Lee is
\* listed first and is present with the sender's email, Bo Kim is absent
C12_Witness ==
    /\ pc = "done" /\ fellows_map = RosterScenario
    /\ Len(expected_list) = 1 /\ expected_list[1][5] = <<AnnLee, BoKim>>
    /\ SendersGet(senders_by_date, Tuesday) = <<SenderBoth>>
    /\ C12_MatchedPlaces(1, 1) = {1, 2}
    /\ report[1][6] = "present" /\ report[1][7] = Some(AleeAtX)
    /\ report[2][6] = "absent"

(***************************************************************************)
(* Claims about main's use of the mail transport (SpecMain).               *)
(***************************************************************************)
\* the dates of the expected entries
C13_ExpectedDates == {expected[i][1] : i \in 1..Len(expected)}

\* the calls made so far go date by date in ascending order, the list with
\* photos and then the list without for each date, no call twice, and only
\* for dates of the expected entries
C13_CallsInOrder ==
    /\ \A n \in 1..Len(fetched) :
          /\ fetched[n][2] \in C13_ExpectedDates
          /\ fetched[n][1] = IF n % 2 = 1 THEN "with_photo" ELSE "without_photo"
          /\ (n % 2 = 0) => fetched[n][2] = fetched[n - 1][2]
    /\ \A n, m \in 1..Len(fetched) :
          n < m => /\ fetched[n] # fetched[m]
                   /\ fetched[n][2] <= fetched[m][2]

\* every expected date has had both of its calls
C13_CallsComplete ==
    \A d \in C13_ExpectedDates :
        \A kind \in {"with_photo", "without_photo"} :
            Cardinality({n \in 1..Len(fetched) : fetched[n] = <<kind, d>>}) = 1

\* the run with no expected entry ends by the early return, and only that run
C13_EmptyReturnsEarly ==
    /\ (pc \notin {"main", "main_range"} /\ raised = "none" /\ expected = <<>>)
          => pc = "main_returned"
    /\ pc = "main_returned"
          => /\ expected = <<>> /\ raised = "none"
             /\ printed = NoSessionsMessage
             /\ ~service /\ fetched = <<>>

\* C13: a run of main whose expected set is empty ends with the "no sessions"
\* message, raising nothing, building no mail service and fetching no date; any
\* other run queries the transport once per distinct expected date (the list
\* with photos, then the list without), in ascending date order and for no
\* other date, only after the service is built, and mark_present is called
\* only when every expected date has been fetched; nothing is fetched after.
C13_FetchDiscipline ==
    /\ [](C13_EmptyReturnsEarly /\ C13_CallsInOrder)
    /\ [](pc = "main_marked" => (service /\ C13_CallsComplete
                                    /\ DOMAIN senders_by_date = C13_ExpectedDates
                                    /\ DOMAIN no_image_senders_by_date = C13_ExpectedDates))
    /\ [][fetched' # fetched => (service /\ pc # "main_marked")]_vars
    /\ [][pc' = "main_marked" => (fetched' = fetched /\ C13_CallsComplete)]_vars

\* three expected entries on two dates, two of them on the same date: four
\* calls were made and mark_present has returned
C13_Witness ==
    /\ pc = "main_marked"
    /\ Len(expected) = 3
    /\ expected[1][1] = expected[2][1]
    /\ Cardinality(C13_ExpectedDates) = 2
    /\ Len(fetched) = 4
    /\ Len(report) > 0

(***************************************************************************)
(* Claims about blank aliases (SpecLoadMatch).                             *)
(***************************************************************************)
\* the value fellows.yaml gives for the fellow, as a list of raw strings
C14_RawAliases ==
    IF fellows_file = None \/ fellow_name \notin DOMAIN fellows_file[1] THEN <<>>
    ELSE LET vals == fellows_file[1][fellow_name]
         IN  IF vals.kind = "none" THEN <<>>
             ELSE IF vals.kind = "list" THEN vals.items
             ELSE <<vals.value>>

\* C14: when the alias list of a fellow holds an alias that is empty after
\* trimming, sender_matches_fellow returns True whatever the email and the
\* display name are, both empty included; and load_fellows keeps every alias
\* of fellows.yaml in its place, a blank one as the empty string.
C14_BlankAliasMatchesAll ==
    /\ (pc = "match_done" /\ \E k \in 1..Len(fellow_aliases) : Strip(fellow_aliases[k]) = <<>>)
          => result = TRUE
    /\ (pc \in {"match", "match_done"} /\ fellows_file # None)
          => /\ Len(fellow_aliases) = Len(C14_RawAliases)
             /\ \A k \in 1..Len(C14_RawAliases) :
                   Strip(C14_RawAliases[k]) = <<>> => fellow_aliases[k] = <<>>

\* fellows.yaml lists a blank alias for Bo Kim; a sender with no email and no
\* display name, asked about Bo Kim, matches
C14_Witness ==
    /\ pc = "match_done"
    /\ fellows_file # None
    /\ fellow_name = BoKim
    /\ C14_RawAliases = <<UnknownAtX, <<" ">>>>
    /\ fellow_aliases = <<UnknownAtX, EmptyStr>>
    /\ email = EmptyStr /\ display_name = EmptyStr
    /\ result = TRUE

====
